---- MODULE Spec2Model ----
(***************************************************************************)
(* Model of adversaryhover_phoenix_modified_train.py:                      *)
(*   PybulletPhysicsWithAdversary.step_forward      (lines 47-84)          *)
(*   CrazyFlieBulletAgentWithAdversary.apply_x/y_torque (lines 107-123)    *)
(*   DroneHoverBulletEnvWithAdversary.__init__      (lines 154-182)        *)
(*   DroneHoverBulletEnvWithAdversary.step          (lines 253-301)        *)
(*   DroneHoverBulletEnvWithAdversary.compute_done  (lines 312-324)        *)
(*                                                                         *)
(* Units.  Lengths are millimetres, angles milliradians, angular rates     *)
(* milliradians per second, degrees are held in millidegrees, torques in   *)
(* 1e-4 N m.  pi is the rational 355/113.  Tuples are 1-indexed, so the    *)
(* code's dstb[0], dstb[1], dstb[2] are dstb[1], dstb[2], dstb[3] here and *)
(* xyz[2] is xyz[3].                                                       *)
(*                                                                         *)
(* The PyBullet engine, the motor model (apply_action) and the ground      *)
(* effect predicate (calculate_ground_effect) are library code: their      *)
(* results are nondeterministic choices from small sets.                   *)
(***************************************************************************)
EXTENDS Integers, Sequences, FiniteSets

VARIABLES
    pc,                \* position of the caller / step / step_forward
    drone,             \* self.drone: xyz, rpy, rpy_dot as last refreshed
    pose,              \* the engine's own body state
    queue,             \* forces and torques queued in the engine, oldest first
    action,            \* step's argument
    dstb,              \* step's local dstb
    i,                 \* substeps completed by the loop of step
    iteration,         \* self.iteration
    motor_forces,      \* step_forward's local motor_forces
    z_torque,          \* step_forward's local z_torque
    apply_ground_eff,  \* step_forward's local apply_ground_eff
    use_ground_effect, \* self.use_ground_effect, fixed at construction
    done,              \* value returned by the latest step
    nsteps,            \* calls of step returned since the last reset
    prevDone,          \* some step before the latest returned done = True
    trace,             \* calls made by the running step_forward, in order
    calls,             \* arguments of each step_forward call of this step
    nSample,           \* calls of dstb_gen in this step
    nSim,              \* stepSimulation calls completed in this step
    nUpd,              \* update_information calls in this step
    iter0,             \* self.iteration when this step was entered
    entry              \* self.drone when the running step_forward was entered

vars == <<pc, drone, pose, queue, action, dstb, i, iteration, motor_forces,
          z_torque, apply_ground_eff, use_ground_effect, done,
          nsteps, prevDone, trace, calls, nSample, nSim, nUpd, iter0, entry>>

\* Control steps the caller makes before it resets the environment.
MaxSteps == 2

\* aggregate_phy_steps=2, the default of __init__.
AggregatePhySteps == 2

\* self.drone.xyz[2] < 0.2, in millimetres.
ZLimit == 200

\* deg2rad(75), the attitude bound in degrees.
AngleLimitDeg == 75

\* rad2deg(np.abs(rpy_dot)) > 1000, the rate bound in degrees per second.
RateLimitDeg == 1000

Abs(x) == IF x < 0 THEN -x ELSE x

\* deg2rad: degrees to milliradians, rounded towards zero.
Deg2Rad(d) == (d * 355 * 1000) \div (180 * 113)

\* rad2deg: milliradians to millidegrees, rounded towards zero.
Rad2Deg(r) == (r * 180 * 113) \div 355

Range(s) == {s[k] : k \in 1..Len(s)}

IsPrefix(s, t) == Len(s) <= Len(t) /\ \A k \in 1..Len(s) : s[k] = t[k]

-----------------------------------------------------------------------------
(* __init__: the disturbance box and its generator.                        *)

\* dstb_space.low = [-1e-3, -1e-3, -1e-4]
DstbSpaceLow == <<-10, -10, -1>>

\* dstb_space.high = [1e-3, 1e-3, 1e-4]
DstbSpaceHigh_Wide == <<53, 53, 1>>
DstbSpaceHigh == <<10, 10, 1>>

\* Box.sample(): each axis drawn between low and high.  The draw is
\* represented by the two ends and the middle of each axis.
BoxSample(low, high) ==
    {<<a, b, c>> : a \in {low[1], (low[1] + high[1]) \div 2, high[1]},
                   b \in {low[2], (low[2] + high[2]) \div 2, high[2]},
                   c \in {low[3], (low[3] + high[3]) \div 2, high[3]}}

\* dstb_gen = lambda x: self.dstb_space.sample()
DstbGen(x) == BoxSample(DstbSpaceLow, DstbSpaceHigh)

-----------------------------------------------------------------------------
(* Agent states.                                                           *)

State(z, roll, pitch, p, q, r) ==
    [xyz |-> <<0, 0, z>>, rpy |-> <<roll, pitch, 0>>, rpy_dot |-> <<p, q, r>>]

\* Level hover at one metre.
Level == State(1000, 0, 0, 0, 0, 0)

ZValues == {ZLimit - 1, ZLimit, 1000}
AngleValues == {-(Deg2Rad(AngleLimitDeg) + 1), -Deg2Rad(AngleLimitDeg), 0,
                Deg2Rad(AngleLimitDeg), Deg2Rad(AngleLimitDeg) + 1}
RateValues == {-17454, 0, 17453, 17454}

\* Every combination: the inputs of compute_done taken alone.
AgentStates ==
    {State(z, a, b, p, q, r) : z \in ZValues, a \in AngleValues, b \in AngleValues,
                               p \in RateValues, q \in RateValues, r \in RateValues}

\* What an integration may leave the body in: level hover, or level hover
\* with one quantity moved to or across its termination bound.
EnginePoses ==
    {State(z, 0, 0, 0, 0, 0) : z \in ZValues}
    \cup {State(1000, a, 0, 0, 0, 0) :
              a \in {Deg2Rad(AngleLimitDeg), Deg2Rad(AngleLimitDeg) + 1}}
    \cup {State(1000, 0, -(Deg2Rad(AngleLimitDeg) + 1), 0, 0, 0),
          State(1000, 0, 0, 17454, 0, 0),
          State(1000, 0, 0, 0, -17454, 0),
          State(1000, 0, 0, 0, 0, 17454)}

\* Commands the caller may give.
Actions == {"a1", "a2"}

\* apply_action's results: <<motor_forces, z_torque>>.
MotorOutputs == {<<"f1", -1>>, <<"f2", 1>>}

-----------------------------------------------------------------------------
(* compute_done                                                            *)

\* z_limit = self.drone.xyz[2] < 0.2
ZLimitHit_Inclusive(s) == s.xyz[3] <= ZLimit
ZLimitHit(s) == s.xyz[3] < ZLimit

\* rp = self.drone.rpy[:2]; rpy_limit = rp[np.abs(rp) > d].any()
RpyLimit(s) ==
    \E k \in 1..2 : Abs(s.rpy[k]) > Deg2Rad(AngleLimitDeg) /\ s.rpy[k] # 0

\* rpy_dot_limit = rpy_dot[rad2deg(np.abs(rpy_dot)) > 1000].any()
RpyDotLimit_NoConversion(s) ==
    \E k \in 1..3 : Abs(s.rpy_dot[k]) > RateLimitDeg * 1000 /\ s.rpy_dot[k] # 0
RpyDotLimit(s) ==
    \E k \in 1..3 : Rad2Deg(Abs(s.rpy_dot[k])) > RateLimitDeg * 1000
                    /\ s.rpy_dot[k] # 0

\* done = True if rpy_limit or rpy_dot_limit or z_limit else False
ComputeDone(s) == RpyLimit(s) \/ RpyDotLimit(s) \/ ZLimitHit(s)

-----------------------------------------------------------------------------
(* apply_x_torque, apply_y_torque, and the queue entries of the others     *)

Torque(obj) == [op |-> "applyExternalTorque", torqueObj |-> obj]
Force(what, val) == [op |-> "applyExternalForce", of |-> what, val |-> val]

\* torqueObj=[torque, 0, 0]
XTorqueObj(torque) == <<torque, 0, 0>>

\* torqueObj=[0, torque, 0]
YTorqueObj_Yaw(torque) == <<0, 0, torque>>
YTorqueObj(torque) == <<0, torque, 0>>

\* apply_z_torque of the base agent: torque about the body z-axis.
ZTorqueObj(torque) == <<0, 0, torque>>

-----------------------------------------------------------------------------
Init ==
    /\ pc = "idle"
    /\ drone = Level
    /\ pose = Level
    /\ queue = <<>>
    /\ action = "none"
    /\ dstb = <<0, 0, 0>>
    /\ i = 0
    /\ iteration = 0
    /\ motor_forces = "none"
    /\ z_torque = 0
    /\ apply_ground_eff = FALSE
    /\ use_ground_effect \in BOOLEAN
    /\ done = FALSE
    /\ nsteps = 0
    /\ prevDone = FALSE
    /\ trace = <<>>
    /\ calls = <<>>
    /\ nSample = 0
    /\ nSim = 0
    /\ nUpd = 0
    /\ iter0 = 0
    /\ entry = Level

\* The environment's variables that no statement of step_forward writes.
envVars == <<action, dstb, i, iteration, use_ground_effect, done, nsteps,
             prevDone, calls, nSample, iter0>>

\* step, lines 280-281: x = self.drone.get_state(); dstb = self.dstb_gen(x)
StepSample(a) ==
    /\ pc = "idle"
    /\ nsteps < MaxSteps
    /\ action' = a
    /\ dstb' \in DstbGen(drone)
    /\ nSample' = 1
    /\ i' = 0
    /\ calls' = <<>>
    /\ nSim' = 0
    /\ nUpd' = 0
    /\ iter0' = iteration
    /\ pc' = "loop"
    /\ UNCHANGED <<drone, pose, queue, iteration, motor_forces, z_torque,
                   apply_ground_eff, use_ground_effect, done, nsteps, prevDone,
                   trace, entry>>

\* step, lines 284 and 288: the loop runs again and calls
\* self.physics.step_forward(action, dstb)
CallStepForward_Resample ==
    /\ pc = "loop"
    /\ i < AggregatePhySteps
    /\ \E d \in DstbGen(drone) :
         /\ dstb' = d
         /\ calls' = Append(calls, <<action, d>>)
    /\ nSample' = nSample + 1
    /\ trace' = <<>>
    /\ entry' = drone
    /\ pc' = "apply_action"
    /\ UNCHANGED <<drone, pose, queue, action, i, iteration, motor_forces,
                   z_torque, apply_ground_eff, use_ground_effect, done, nsteps,
                   prevDone, nSim, nUpd, iter0>>
CallStepForward ==
    /\ pc = "loop"
    /\ i < AggregatePhySteps
    /\ calls' = Append(calls, <<action, dstb>>)
    /\ trace' = <<>>
    /\ entry' = drone
    /\ pc' = "apply_action"
    /\ UNCHANGED <<drone, pose, queue, action, dstb, i, iteration, motor_forces,
                   z_torque, apply_ground_eff, use_ground_effect, done, nsteps,
                   prevDone, nSample, nSim, nUpd, iter0>>

\* step_forward, line 55: motor_forces, z_torque = self.drone.apply_action(action)
ApplyAction ==
    /\ pc = "apply_action"
    /\ \E out \in MotorOutputs :
         /\ motor_forces' = out[1]
         /\ z_torque' = out[2]
    /\ trace' = Append(trace, "apply_action")
    /\ pc' = "apply_motor_forces"
    /\ UNCHANGED <<drone, pose, queue, apply_ground_eff, nSim, nUpd, entry>>
    /\ UNCHANGED envVars

\* step_forward, line 58: self.drone.apply_motor_forces(motor_forces)
ApplyMotorForces ==
    /\ pc = "apply_motor_forces"
    /\ queue' = Append(queue, Force("motor", motor_forces))
    /\ trace' = Append(trace, "apply_motor_forces")
    /\ pc' = "apply_z_torque"
    /\ UNCHANGED <<drone, pose, motor_forces, z_torque, apply_ground_eff,
                   nSim, nUpd, entry>>
    /\ UNCHANGED envVars

\* step_forward, line 59: self.drone.apply_z_torque(z_torque)
ApplyZTorque ==
    /\ pc = "apply_z_torque"
    /\ queue' = Append(queue, Torque(ZTorqueObj(z_torque)))
    /\ trace' = Append(trace, "apply_z_torque")
    /\ pc' = "apply_x_torque"
    /\ UNCHANGED <<drone, pose, motor_forces, z_torque, apply_ground_eff,
                   nSim, nUpd, entry>>
    /\ UNCHANGED envVars

\* step_forward, line 62: self.drone.apply_x_torque(dstb[0])
ApplyXTorque ==
    /\ pc = "apply_x_torque"
    /\ queue' = Append(queue, Torque(XTorqueObj(dstb[1])))
    /\ trace' = Append(trace, "apply_x_torque")
    /\ pc' = "apply_y_torque"
    /\ UNCHANGED <<drone, pose, motor_forces, z_torque, apply_ground_eff,
                   nSim, nUpd, entry>>
    /\ UNCHANGED envVars

\* step_forward, line 63: self.drone.apply_y_torque(dstb[1])
ApplyYTorque ==
    /\ pc = "apply_y_torque"
    /\ queue' = Append(queue, Torque(YTorqueObj(dstb[2])))
    /\ trace' = Append(trace, "apply_y_torque")
    /\ pc' = "apply_force"
    /\ UNCHANGED <<drone, pose, motor_forces, z_torque, apply_ground_eff,
                   nSim, nUpd, entry>>
    /\ UNCHANGED envVars

\* step_forward, lines 66-75: the drag force, self.drone.apply_force(force=drag)
ApplyDrag ==
    /\ pc = "apply_force"
    /\ queue' = Append(queue, Force("drag", "drag"))
    /\ trace' = Append(trace, "apply_force")
    /\ pc' = "ground_effect"
    /\ UNCHANGED <<drone, pose, motor_forces, z_torque, apply_ground_eff,
                   nSim, nUpd, entry>>
    /\ UNCHANGED envVars

\* step_forward, lines 78-80:
\*   apply_ground_eff, ge_forces = self.calculate_ground_effect(motor_forces)
\*   if apply_ground_eff and self.use_ground_effect:
\*       self.drone.apply_motor_forces(forces=ge_forces)
GroundEffect_Unconditional ==
    /\ pc = "ground_effect"
    /\ \E b \in BOOLEAN :
         /\ apply_ground_eff' = b
         /\ IF b
            THEN /\ queue' = Append(queue, Force("ground_effect", "ge_forces"))
                 /\ trace' = Append(trace, "ground_effect")
            ELSE UNCHANGED <<queue, trace>>
    /\ pc' = "stepSimulation"
    /\ UNCHANGED <<drone, pose, motor_forces, z_torque, nSim, nUpd, entry>>
    /\ UNCHANGED envVars
GroundEffect ==
    /\ pc = "ground_effect"
    /\ \E b \in BOOLEAN :
         /\ apply_ground_eff' = b
         /\ IF b /\ use_ground_effect
            THEN /\ queue' = Append(queue, Force("ground_effect", "ge_forces"))
                 /\ trace' = Append(trace, "ground_effect")
            ELSE UNCHANGED <<queue, trace>>
    /\ pc' = "stepSimulation"
    /\ UNCHANGED <<drone, pose, motor_forces, z_torque, nSim, nUpd, entry>>
    /\ UNCHANGED envVars

\* step_forward, line 83: self.bc.stepSimulation() integrates: the queued
\* forces and torques are consumed and the body moves.
StepSimulation ==
    /\ pc = "stepSimulation"
    /\ pose' \in EnginePoses
    /\ queue' = <<>>
    /\ nSim' = nSim + 1
    /\ trace' = Append(trace, "stepSimulation")
    /\ pc' = "update_information"
    /\ UNCHANGED <<drone, motor_forces, z_torque, apply_ground_eff, nUpd, entry>>
    /\ UNCHANGED envVars

\* step_forward, line 83, the call raises.  Nothing in step_forward (47-84)
\* or in step (284-292) catches it, so it leaves both, and no statement
\* withdraws what lines 58-80 queued: the engine holds the queue or has
\* dropped it, as the engine pleases.
StepSimulationRaises ==
    /\ pc = "stepSimulation"
    /\ queue' \in {queue, <<>>}
    /\ pc' = "raised"
    /\ UNCHANGED <<drone, pose, motor_forces, z_torque, apply_ground_eff,
                   trace, nSim, nUpd, entry>>
    /\ UNCHANGED envVars

\* step_forward, line 84: self.drone.update_information(), and step_forward
\* returns: its locals are gone.
UpdateInformation_Skipped ==
    /\ pc = "update_information"
    /\ drone' = drone
    /\ entry' = drone
    /\ nUpd' = nUpd + 1
    /\ motor_forces' = "none"
    /\ z_torque' = 0
    /\ apply_ground_eff' = FALSE
    /\ trace' = Append(trace, "update_information")
    /\ pc' = "compute_observation"
    /\ UNCHANGED <<pose, queue, nSim>>
    /\ UNCHANGED envVars
UpdateInformation ==
    /\ pc = "update_information"
    /\ drone' = pose
    /\ entry' = pose
    /\ nUpd' = nUpd + 1
    /\ motor_forces' = "none"
    /\ z_torque' = 0
    /\ apply_ground_eff' = FALSE
    /\ trace' = Append(trace, "update_information")
    /\ pc' = "compute_observation"
    /\ UNCHANGED <<pose, queue, nSim>>
    /\ UNCHANGED envVars

\* step, lines 291-292: self.compute_observation(); self.iteration += 1
ComputeObservation_ExtraTick ==
    /\ pc = "compute_observation"
    /\ iteration' = iteration + 2
    /\ i' = i + 1
    /\ pc' = "loop"
    /\ UNCHANGED <<drone, pose, queue, motor_forces, z_torque, apply_ground_eff,
                   trace, nSim, nUpd, entry>>
    /\ UNCHANGED <<action, dstb, use_ground_effect, done, nsteps, prevDone,
                   calls, nSample, iter0>>
ComputeObservation ==
    /\ pc = "compute_observation"
    /\ iteration' = iteration + 1
    /\ i' = i + 1
    /\ pc' = "loop"
    /\ UNCHANGED <<drone, pose, queue, motor_forces, z_torque, apply_ground_eff,
                   trace, nSim, nUpd, entry>>
    /\ UNCHANGED <<action, dstb, use_ground_effect, done, nsteps, prevDone,
                   calls, nSample, iter0>>

\* step, lines 284 and 295-301: the loop is over; done = self.compute_done();
\* self.last_action = action; return next_obs, r, done, info.  The locals of
\* step are gone with the return.
StepReturn_Latched ==
    /\ pc = "loop"
    /\ i >= AggregatePhySteps
    /\ done' = (ComputeDone(drone) \/ (nsteps > 0 /\ done))
    /\ prevDone' = (prevDone \/ (nsteps > 0 /\ done))
    /\ nsteps' = nsteps + 1
    /\ action' = "none"
    /\ dstb' = <<0, 0, 0>>
    /\ i' = 0
    /\ calls' = <<>>
    /\ trace' = <<>>
    /\ nSample' = 0
    /\ nSim' = 0
    /\ nUpd' = 0
    /\ iter0' = 0
    /\ pc' = "idle"
    /\ UNCHANGED <<drone, pose, queue, iteration, motor_forces, z_torque,
                   apply_ground_eff, use_ground_effect, entry>>
StepReturn ==
    /\ pc = "loop"
    /\ i >= AggregatePhySteps
    /\ done' = ComputeDone(drone)
    /\ prevDone' = (prevDone \/ (nsteps > 0 /\ done))
    /\ nsteps' = nsteps + 1
    /\ action' = "none"
    /\ dstb' = <<0, 0, 0>>
    /\ i' = 0
    /\ calls' = <<>>
    /\ trace' = <<>>
    /\ nSample' = 0
    /\ nSim' = 0
    /\ nUpd' = 0
    /\ iter0' = 0
    /\ pc' = "idle"
    /\ UNCHANGED <<drone, pose, queue, iteration, motor_forces, z_torque,
                   apply_ground_eff, use_ground_effect, entry>>

\* test_env, line 345: x = env.reset() starts a new episode.
Reset ==
    /\ pc \in {"idle", "raised"}
    /\ nsteps > 0 \/ pc = "raised"
    /\ pc' = "idle"
    /\ drone' = Level
    /\ pose' = Level
    /\ queue' = <<>>
    /\ action' = "none"
    /\ dstb' = <<0, 0, 0>>
    /\ i' = 0
    /\ iteration' = 0
    /\ motor_forces' = "none"
    /\ z_torque' = 0
    /\ apply_ground_eff' = FALSE
    /\ done' = FALSE
    /\ nsteps' = 0
    /\ prevDone' = FALSE
    /\ trace' = <<>>
    /\ calls' = <<>>
    /\ nSample' = 0
    /\ nSim' = 0
    /\ nUpd' = 0
    /\ iter0' = 0
    /\ entry' = Level
    /\ UNCHANGED use_ground_effect

Next ==
    \/ \E a \in Actions : StepSample(a)
    \/ CallStepForward
    \/ ApplyAction
    \/ ApplyMotorForces
    \/ ApplyZTorque
    \/ ApplyXTorque
    \/ ApplyYTorque
    \/ ApplyDrag
    \/ GroundEffect
    \/ StepSimulation
    \/ StepSimulationRaises
    \/ UpdateInformation
    \/ ComputeObservation
    \/ StepReturn
    \/ Reset

Spec == Init /\ [][Next]_vars

-----------------------------------------------------------------------------
(* compute_done taken alone, on every combination of the agent's values.   *)

InitDone ==
    /\ pc = "compute_done"
    /\ drone \in AgentStates
    /\ pose = drone
    /\ queue = <<>>
    /\ action = "none"
    /\ dstb = <<0, 0, 0>>
    /\ i = 0
    /\ iteration = 0
    /\ motor_forces = "none"
    /\ z_torque = 0
    /\ apply_ground_eff = FALSE
    /\ use_ground_effect = FALSE
    /\ done = FALSE
    /\ nsteps = 0
    /\ prevDone = FALSE
    /\ trace = <<>>
    /\ calls = <<>>
    /\ nSample = 0
    /\ nSim = 0
    /\ nUpd = 0
    /\ iter0 = 0
    /\ entry = drone

\* compute_done, lines 312-324, called on self.drone.
CallComputeDone ==
    /\ pc = "compute_done"
    /\ done' = ComputeDone(drone)
    /\ pc' = "evaluated"
    /\ UNCHANGED <<drone, pose, queue, action, dstb, i, iteration, motor_forces,
                   z_torque, apply_ground_eff, use_ground_effect, nsteps, prevDone, trace, calls, nSample, nSim, nUpd, iter0,
                   entry>>

NextDone == CallComputeDone

SpecDone == InitDone /\ [][NextDone]_vars

-----------------------------------------------------------------------------
(* Properties.                                                             *)

\* The calls of one step_forward, in the order of lines 55-84.
Order(ge) ==
    <<"apply_action", "apply_motor_forces", "apply_z_torque", "apply_x_torque",
      "apply_y_torque", "apply_force">>
    \o (IF ge THEN <<"ground_effect">> ELSE <<>>)
    \o <<"stepSimulation", "update_information">>

\* What each queued entry is, in the order queued.
QueueKinds == [k \in 1..Len(queue) |->
                 IF queue[k].op = "applyExternalTorque"
                 THEN IF queue[k].torqueObj[1] # 0 THEN "x_torque"
                      ELSE IF queue[k].torqueObj[2] # 0 THEN "y_torque"
                      ELSE IF queue[k].torqueObj[3] # 0 THEN "z_torque"
                      ELSE "zero_torque"
                 ELSE queue[k].of]

IsTorque(e) == e.op = "applyExternalTorque"

\* The termination rule stated on the physical quantities, without deg2rad
\* and rad2deg: x mrad exceeds d degrees iff x * 180 * 113 > d * 355 * 1000.
ExceedsDeg(x, d) == Abs(x) * 180 * 113 > d * 355 * 1000
OutOfBounds(s) ==
    \/ s.xyz[3] < 200
    \/ ExceedsDeg(s.rpy[1], 75)
    \/ ExceedsDeg(s.rpy[2], 75)
    \/ ExceedsDeg(s.rpy_dot[1], 1000)
    \/ ExceedsDeg(s.rpy_dot[2], 1000)
    \/ ExceedsDeg(s.rpy_dot[3], 1000)

\* C1: in every call of step_forward the calls come in the order
\* apply_action, motor forces, z torque, x torque, y torque, drag,
\* ground effect (exactly when apply_ground_eff and use_ground_effect),
\* stepSimulation, update_information; the queue holds the forces and
\* torques in that order before the integration and nothing is queued after
\* it within the call.
C1_StepForwardOrder ==
    /\ \E ge \in BOOLEAN : IsPrefix(trace, Order(ge))
    /\ pc \in {"stepSimulation", "update_information"} =>
         ("ground_effect" \in Range(trace)) = (apply_ground_eff /\ use_ground_effect)
    /\ pc = "stepSimulation" =>
         /\ trace = SubSeq(Order("ground_effect" \in Range(trace)), 1, Len(trace))
         /\ \E zk \in {"z_torque"}, xk \in {"x_torque", "zero_torque"},
               yk \in {"y_torque", "zero_torque"} :
              QueueKinds = <<"motor", zk, xk, yk, "drag">>
                           \o (IF "ground_effect" \in Range(trace)
                               THEN <<"ground_effect">> ELSE <<>>)
    /\ pc = "update_information" => queue = <<>>
    /\ pc = "compute_observation" =>
         /\ queue = <<>>
         /\ \E ge \in BOOLEAN : trace = Order(ge)

\* A call of step_forward has finished and queued the ground-effect force.
C1_Witness ==
    /\ pc = "compute_observation"
    /\ "ground_effect" \in Range(trace)
    /\ Len(trace) = 9

\* C3 as claimed: once a step has returned done = True, every later step of
\* the episode returns done = True.
C3_MonotonicDone == prevDone => done

\* C3 as the code has it: done is evaluated afresh; after a step that
\* returned True, a later step of the same episode returns True exactly when
\* the agent state at its end is out of bounds, and False when it is back
\* inside them.
C3_DoneNotLatched ==
    (pc = "idle" /\ prevDone) => (done = OutOfBounds(drone))

\* A step returned True and a later step of the same episode returned False.
C3_Witness == pc = "idle" /\ prevDone /\ ~done /\ ~OutOfBounds(drone)

\* C4: within one call of step the disturbance is sampled once, before the
\* first substep, and every step_forward call of that step receives the same
\* action and the same disturbance.
C4_SameArgsEverySubstep ==
    pc # "idle" =>
      /\ nSample = 1
      /\ \A k \in 1..Len(calls) : calls[k] = calls[1] /\ calls[k] = <<action, dstb>>

\* The second control step of an episode has made all its substeps with a
\* disturbance that is not zero.
C4_Witness ==
    /\ pc = "loop"
    /\ nsteps = 1
    /\ Len(calls) = AggregatePhySteps
    /\ dstb[1] # 0 /\ dstb[3] # 0

InStepForwardBeforeIntegration ==
    pc \in {"apply_action", "apply_motor_forces", "apply_z_torque",
            "apply_x_torque", "apply_y_torque", "apply_force", "ground_effect",
            "stepSimulation"}

\* C5: a control step runs exactly aggregate_phy_steps substeps one after the
\* other, each with one stepSimulation followed by one update_information;
\* the iteration counter grows by one per substep; and self.drone changes
\* only in update_information (or in a reset).
C5_SubstepCounts ==
    /\ [](/\ pc # "idle" => iteration = iter0 + i
          /\ pc = "loop" => nSim = i /\ nUpd = i /\ Len(calls) = i
                             /\ i <= AggregatePhySteps
          /\ InStepForwardBeforeIntegration =>
               nSim = i /\ nUpd = i /\ Len(calls) = i + 1 /\ i < AggregatePhySteps
          /\ pc = "update_information" => nSim = i + 1 /\ nUpd = i
          /\ pc = "compute_observation" => nSim = i + 1 /\ nUpd = i + 1
          /\ pc = "idle" /\ nsteps > 0 =>
               iteration = nsteps * AggregatePhySteps)
    /\ [][drone' # drone => (pc = "update_information" \/ pc' = "idle")]_vars
    /\ [][pc = "loop" /\ pc' = "idle" =>
            nSim = AggregatePhySteps /\ nUpd = AggregatePhySteps]_vars

\* The second control step is about to return after all its substeps.
C5_Witness ==
    /\ pc = "loop"
    /\ nsteps = 1
    /\ i = AggregatePhySteps
    /\ nSim = AggregatePhySteps
    /\ drone # Level

\* C6 as claimed: when stepSimulation raises, the agent state is as it was
\* when the substep began and nothing the substep queued is left in the
\* engine.
C6_AllOrNothing ==
    pc = "raised" => (drone = entry /\ queue = <<>>)

\* C8: dstb[0] is queued as a torque about x and dstb[1] as a torque about y;
\* dstb[2] is never applied, and the only torque about z is apply_action's
\* z_torque.
C8_RollPitchOnly ==
    /\ pc = "stepSimulation" =>
         SelectSeq(queue, IsTorque) =
           <<Torque(<<0, 0, z_torque>>), Torque(<<dstb[1], 0, 0>>),
             Torque(<<0, dstb[2], 0>>)>>
    /\ \A k \in 1..Len(queue) :
         (IsTorque(queue[k]) /\ queue[k].torqueObj[3] # 0) =>
           queue[k].torqueObj = <<0, 0, z_torque>>

\* All torques of a substep are queued, with a z disturbance that is not
\* zero and differs from the motor yaw torque.
C8_Witness ==
    /\ pc = "stepSimulation"
    /\ dstb[3] # 0 /\ dstb[3] # z_torque
    /\ dstb[1] # 0 /\ dstb[2] # 0

\* C9: the done flag a step returns is the termination rule on the body's
\* state after the last substep of that step, so a step whose final state
\* exceeds the attitude bound returns True itself.
C9_DoneOnFinalState ==
    (pc = "idle" /\ nsteps > 0) =>
      /\ done = OutOfBounds(pose)
      /\ (ExceedsDeg(pose.rpy[1], 75) \/ ExceedsDeg(pose.rpy[2], 75)) => done

\* The first step ended inside the bounds and returned False; the second
\* ended with the roll angle over the bound and returned True.
C9_Witness ==
    /\ pc = "idle" /\ nsteps = 2
    /\ ~prevDone /\ done
    /\ ExceedsDeg(pose.rpy[1], 75)

\* C10: every disturbance lies in the box [-1e-3, 1e-3] x [-1e-3, 1e-3] x
\* [-1e-4, 1e-4], ends included, whatever the agent state, and so do the x
\* and y torques queued in every substep.
C10_DisturbanceInBox ==
    /\ -10 <= dstb[1] /\ dstb[1] <= 10
    /\ -10 <= dstb[2] /\ dstb[2] <= 10
    /\ -1 <= dstb[3] /\ dstb[3] <= 1
    /\ \A k \in 1..Len(queue) :
         IsTorque(queue[k]) =>
           Abs(queue[k].torqueObj[1]) <= 10 /\ Abs(queue[k].torqueObj[2]) <= 10

\* A disturbance on the ends of the box has been queued.
C10_Witness ==
    /\ pc = "stepSimulation"
    /\ dstb = <<10, -10, 1>>
    /\ Torque(<<10, 0, 0>>) \in Range(queue)
    /\ Torque(<<0, -10, 0>>) \in Range(queue)

\* C2 as claimed: compute_done is True exactly when z < 0.2 or |roll| > 75
\* deg or |pitch| > 75 deg or |roll rate| > 1000 deg/s or |pitch rate| > 1000
\* deg/s, the yaw rate having no say.
C2_YawRateExcluded ==
    pc = "evaluated" =>
      done = (\/ drone.xyz[3] < 200
              \/ ExceedsDeg(drone.rpy[1], 75)
              \/ ExceedsDeg(drone.rpy[2], 75)
              \/ ExceedsDeg(drone.rpy_dot[1], 1000)
              \/ ExceedsDeg(drone.rpy_dot[2], 1000))

\* C2 as the code has it: the yaw rate counts like the other two rates.
C2_DoneIffOutOfBounds ==
    pc = "evaluated" => done = OutOfBounds(drone)

\* compute_done returned True for a state whose yaw rate alone is over the
\* bound.
C2_Witness ==
    /\ pc = "evaluated"
    /\ done
    /\ drone.xyz[3] = 1000 /\ drone.rpy = <<0, 0, 0>>
    /\ drone.rpy_dot[1] = 0 /\ drone.rpy_dot[2] = 0
    /\ ExceedsDeg(drone.rpy_dot[3], 1000)

RatesInside(s) == \A k \in 1..3 : ~ExceedsDeg(s.rpy_dot[k], 1000)

\* C7: with everything else inside its bounds, compute_done is False at
\* altitude exactly 0.2 and True below it, False at |roll| or |pitch| exactly
\* deg2rad(75) and True above it.
C7_StrictBoundaries ==
    pc = "evaluated" =>
      /\ drone.xyz[3] < 200 => done
      /\ (/\ drone.xyz[3] = 200
          /\ RatesInside(drone)
          /\ \A k \in 1..2 : Abs(drone.rpy[k]) <= Deg2Rad(75)) => ~done
      /\ \A k \in 1..2 :
           /\ Abs(drone.rpy[k]) > Deg2Rad(75) => done
           /\ (/\ Abs(drone.rpy[k]) = Deg2Rad(75)
               /\ Abs(drone.rpy[3 - k]) <= Deg2Rad(75)
               /\ drone.xyz[3] >= 200
               /\ RatesInside(drone)) => ~done

\* compute_done returned False with altitude, roll and pitch all exactly on
\* their bounds.
C7_Witness ==
    /\ pc = "evaluated"
    /\ ~done
    /\ drone.xyz[3] = 200
    /\ drone.rpy[1] = Deg2Rad(75)
    /\ drone.rpy[2] = -Deg2Rad(75)

====
